---------------------------- MODULE Spec2Model ----------------------------
(***************************************************************************)
(* NuGetCommandV2: the custom-command entry point run() of nugetcustom.ts  *)
(* together with the NuGetToolRunner2 module it drives (quirk resolution,   *)
(* credential-provider selection, child-process environment, proxy).      *)
(*                                                                         *)
(* Four specifications share the variables:                               *)
(*   Spec        one invocation of run(), or one direct call of the       *)
(*               exported getNuGetQuirksAsync;                             *)
(*   SpecSelect  direct calls of the exported selector functions;          *)
(*   SpecEnv     NuGetToolRunner2.execSync over a wide range of inherited   *)
(*               environments and settings;                                *)
(*   SpecProxy   repeated execSync calls while the agent's task variables  *)
(*               change in between.                                        *)
(*                                                                         *)
(* JavaScript values: a value that may be null or undefined is a record    *)
(* tagged "null", "undefined" or "string".  A string the code inspects     *)
(* character by character (an environment key, a URL) is a sequence of     *)
(* one-character strings; Text(..) gives the string itself.                *)
(***************************************************************************)
EXTENDS Integers, Sequences, FiniteSets, TLC

VARIABLES
    peFile,             \* what peParser.getFileVersionInfoAsync yields for nuGetPath
    taskVariables,      \* the agent's task variables read by tl.getVariable
    onPremisesTfs,      \* commandHelper.isOnPremisesTfs()
    processEnv,         \* process.env, in key insertion order
    pc,                 \* position of the call in progress
    version,            \* run(): const version (line 32)
    quirks,             \* run(): const quirks (line 42) / result of the direct call
    useV1CredProvider,  \* run(): line 44
    useV2CredProvider,  \* run(): line 45
    decisions,          \* results of the selector calls of lines 44-45
    taskResult,         \* tl.setResult
    promise,            \* state of the promise run()/getNuGetQuirksAsync returned
    trace,              \* what the invocation did, in order
    runner,             \* the NuGetToolRunner2 object (settings, authInfo)
    execs,              \* one record per execSync call, oldest first
    lastCall            \* the last direct call of an exported selector

vars == <<peFile, taskVariables, onPremisesTfs, processEnv, pc, version, quirks,
          useV1CredProvider, useV2CredProvider, decisions, taskResult, promise,
          trace, runner, execs, lastCall>>

-----------------------------------------------------------------------------
(* JavaScript values *)

Null == [t |-> "null"]
Undefined == [t |-> "undefined"]
Str(s) == [t |-> "string", v |-> s]

\* ToBoolean of a value that is null, undefined or a string
Truthy(x) == x.t = "string" /\ x.v # ""

\* x != null (loose: undefined equals null)
NotNullish(x) == x.t = "string"

\* a || b
OrElse(a, b) == IF Truthy(a) THEN a ELSE b

RECURSIVE Text(_)
Text(cs) == IF cs = <<>> THEN "" ELSE Head(cs) \o Text(Tail(cs))

RECURSIVE JoinWith(_, _)
JoinWith(ss, sep) ==
    IF ss = <<>> THEN ""
    ELSE IF Len(ss) = 1 THEN ss[1]
    ELSE ss[1] \o sep \o JoinWith(Tail(ss), sep)

\* tl.getVariable(name): undefined when the variable is not set
getVariable(name) ==
    IF name \in DOMAIN taskVariables THEN Str(taskVariables[name]) ELSE Undefined

-----------------------------------------------------------------------------
(* Quirks *)

QuirkNames ==
    {"NoCredentialProvider", "V2CredentialProvider", "CredentialProviderRace",
     "NoTfsOnPremAuthCredentialProvider", "NoTfsOnPremAuthConfig"}

QuirkSets == SUBSET QuirkNames

hasQuirk(q, name) == name \in q

\* the fixed quirk set used when the version cannot be read: the conservative
\* assumption that the credential provider does not work
defaultQuirks == {"NoCredentialProvider"}

\* NuGetQuirks.fromVersion: a table lookup whose table is not part of this
\* module; any quirk set may come back
fromVersion(fileVersion) == QuirkSets

-----------------------------------------------------------------------------
(* Credential-provider selection *)

isCredentialProviderEnabledFlipped(q) ==
    LET flag == getVariable("NuGet.ForceEnableCredentialProvider") IN
    IF hasQuirk(q, "NoCredentialProvider") \/ hasQuirk(q, "CredentialProviderRace")
      THEN FALSE
    ELSE IF flag = Str("true") THEN TRUE
    ELSE IF flag = Str("false") THEN FALSE
    ELSE IF onPremisesTfs /\ hasQuirk(q, "NoTfsOnPremAuthCredentialProvider") THEN FALSE
    ELSE TRUE

isCredentialProviderEnabled(q) ==
    LET credentialProviderOverrideFlag ==
            getVariable("NuGet.ForceEnableCredentialProvider") IN
    IF credentialProviderOverrideFlag = Str("true") THEN TRUE
    ELSE IF credentialProviderOverrideFlag = Str("false") THEN FALSE
    ELSE IF hasQuirk(q, "NoCredentialProvider") \/ hasQuirk(q, "CredentialProviderRace")
      THEN FALSE
    ELSE IF onPremisesTfs /\ hasQuirk(q, "NoTfsOnPremAuthCredentialProvider") THEN FALSE
    ELSE TRUE

isCredentialProviderV1Enabled(q) ==
    IF hasQuirk(q, "V2CredentialProvider") THEN FALSE
    ELSE isCredentialProviderEnabled(q)

isCredentialProviderV2EnabledUngated(q) == isCredentialProviderEnabled(q)

isCredentialProviderV2Enabled(q) ==
    IF hasQuirk(q, "V2CredentialProvider") = FALSE THEN FALSE
    ELSE isCredentialProviderEnabled(q)

isCredentialConfigEnabledQuirkFirst(q) ==
    LET flag == getVariable("NuGet.ForceEnableCredentialConfig") IN
    IF onPremisesTfs /\ hasQuirk(q, "NoTfsOnPremAuthConfig") THEN FALSE
    ELSE IF flag = Str("true") THEN TRUE
    ELSE IF flag = Str("false") THEN FALSE
    ELSE TRUE

isCredentialConfigEnabled(q) ==
    LET credentialConfigOverrideFlag ==
            getVariable("NuGet.ForceEnableCredentialConfig") IN
    IF credentialConfigOverrideFlag = Str("true") THEN TRUE
    ELSE IF credentialConfigOverrideFlag = Str("false") THEN FALSE
    ELSE IF onPremisesTfs /\ hasQuirk(q, "NoTfsOnPremAuthConfig") THEN FALSE
    ELSE TRUE

-----------------------------------------------------------------------------
(* Characters *)

LowerLetters ==
    <<"a","b","c","d","e","f","g","h","i","j","k","l","m",
      "n","o","p","q","r","s","t","u","v","w","x","y","z">>

UpperLetters ==
    <<"A","B","C","D","E","F","G","H","I","J","K","L","M",
      "N","O","P","Q","R","S","T","U","V","W","X","Y","Z">>

Digits == {"0","1","2","3","4","5","6","7","8","9"}

UpperChar(c) ==
    IF \E i \in 1..Len(LowerLetters) : LowerLetters[i] = c
      THEN UpperLetters[CHOOSE i \in 1..Len(LowerLetters) : LowerLetters[i] = c]
      ELSE c

LowerChar(c) ==
    IF \E i \in 1..Len(UpperLetters) : UpperLetters[i] = c
      THEN LowerLetters[CHOOSE i \in 1..Len(UpperLetters) : UpperLetters[i] = c]
      ELSE c

\* String.prototype.toUpperCase / toLowerCase on a character sequence
toUpperCase(cs) == [i \in 1..Len(cs) |-> UpperChar(cs[i])]
toLowerCase(cs) == [i \in 1..Len(cs) |-> LowerChar(cs[i])]

\* indexOf / lastIndexOf, 1-based; 0 when absent
IndexOf(cs, c) ==
    IF \E i \in 1..Len(cs) : cs[i] = c
      THEN CHOOSE i \in 1..Len(cs) : cs[i] = c /\ \A j \in 1..(i-1) : cs[j] # c
      ELSE 0

LastIndexOf(cs, c) ==
    IF \E i \in 1..Len(cs) : cs[i] = c
      THEN CHOOSE i \in 1..Len(cs) : cs[i] = c /\ \A j \in (i+1)..Len(cs) : cs[j] # c
      ELSE 0

-----------------------------------------------------------------------------
(* Proxy: url.parse, url.format, getNuGetProxyFromEnvironment *)

\* url.parse (Node's url module) for URLs of a slashed protocol without query
\* or fragment, written as the stages of Url.prototype.parse, each handing
\* its results to the next.  A field that is null or empty is <<>>
\* (url.format treats the two alike).
SlashedProtocols == {"http:", "https:", "ftp:", "gopher:", "file:"}

ProtocolChars == {LowerLetters[k] : k \in 1..26} \cup Digits \cup {".", "+", "-"}

urlParsed(protocol, slashes, auth, hostname, port, rest) ==
    [protocol |-> protocol, slashes |-> slashes, auth |-> auth,
     host |-> hostname \o (IF port # <<>> THEN <<":">> \o port ELSE <<>>),
     port |-> port, hostname |-> hostname,
     \* a slashed protocol with a host and no path gets the path "/"
     pathname |-> IF Text(protocol) \in SlashedProtocols /\ hostname # <<>> /\ rest = <<>>
                    THEN <<"/">> ELSE rest]

\* parseHost: a trailing ":digits" is the port; the host name is lower-cased
urlParseHost(protocol, auth, host, pcolon, rest) ==
    IF pcolon # 0 /\ \A i \in (pcolon+1)..Len(host) : host[i] \in Digits
      THEN urlParsed(protocol, TRUE, auth, toLowerCase(SubSeq(host, 1, pcolon - 1)),
                     SubSeq(host, pcolon + 1, Len(host)), rest)
      ELSE urlParsed(protocol, TRUE, auth, toLowerCase(host), <<>>, rest)

\* what precedes the last "@" of the host section is the auth
urlParseAuth(protocol, section, atSign, rest) ==
    IF atSign # 0
      THEN urlParseHost(protocol, SubSeq(section, 1, atSign - 1),
                        SubSeq(section, atSign + 1, Len(section)),
                        LastIndexOf(SubSeq(section, atSign + 1, Len(section)), ":"),
                        rest)
      ELSE urlParseHost(protocol, <<>>, section, LastIndexOf(section, ":"), rest)

\* the host section ends at the first "/"
urlParseSection(protocol, rest, hostEnd) ==
    IF hostEnd = 0
      THEN urlParseAuth(protocol, rest, LastIndexOf(rest, "@"), <<>>)
      ELSE urlParseAuth(protocol, SubSeq(rest, 1, hostEnd - 1),
                        LastIndexOf(SubSeq(rest, 1, hostEnd - 1), "@"),
                        SubSeq(rest, hostEnd, Len(rest)))

urlParseSlashes(protocol, rest) ==
    IF protocol # <<>> /\ Len(rest) >= 2 /\ rest[1] = "/" /\ rest[2] = "/"
      THEN urlParseSection(protocol, SubSeq(rest, 3, Len(rest)),
                           IndexOf(SubSeq(rest, 3, Len(rest)), "/"))
      ELSE urlParsed(protocol, FALSE, <<>>, <<>>, <<>>, rest)

urlParseProtocol(cs, colon) ==
    IF colon > 1 /\ \A i \in 1..(colon-1) : LowerChar(cs[i]) \in ProtocolChars
      THEN urlParseSlashes(toLowerCase(SubSeq(cs, 1, colon)),
                           SubSeq(cs, colon + 1, Len(cs)))
      ELSE urlParseSlashes(<<>>, cs)

urlParse(cs) == urlParseProtocol(cs, IndexOf(cs, ":"))

\* encodeURIComponent(auth).replace(/%3A/i, ':'): the first ":" stays, "@" and
\* any later ":" are percent-encoded; the other characters used here are
\* unreserved and stay
RECURSIVE encodeAuth(_, _)
encodeAuth(cs, colonSeen) ==
    IF cs = <<>> THEN <<>>
    ELSE LET c == Head(cs) IN
         IF c = ":" THEN
              (IF colonSeen THEN <<"%", "3", "A">> ELSE <<":">>)
                  \o encodeAuth(Tail(cs), TRUE)
         ELSE IF c = "@" THEN <<"%", "4", "0">> \o encodeAuth(Tail(cs), colonSeen)
         ELSE <<c>> \o encodeAuth(Tail(cs), colonSeen)

\* url.format: protocol, "//", auth "@", host, path
urlFormatHost(u, auth) ==
    IF u.host # <<>> THEN auth \o u.host
    ELSE IF u.hostname # <<>>
      THEN auth \o u.hostname \o (IF u.port # <<>> THEN <<":">> \o u.port ELSE <<>>)
    ELSE <<>>

urlFormatParts(u, host) ==
    IF \/ u.slashes
       \/ (u.protocol = <<>> \/ Text(u.protocol) \in SlashedProtocols) /\ host # <<>>
      THEN u.protocol \o <<"/", "/">> \o host
           \o (IF u.pathname # <<>> /\ u.pathname[1] # "/" THEN <<"/">> ELSE <<>>)
           \o u.pathname
      ELSE u.protocol \o host \o u.pathname

urlFormat(u) ==
    urlFormatParts(u, urlFormatHost(u, IF u.auth # <<>>
                                         THEN encodeAuth(u.auth, FALSE) \o <<"@">>
                                         ELSE <<>>))

getNuGetProxyFromEnvironment ==
    \* the three variables hold character sequences
    LET proxyUrl == getVariable("agent.proxyurl")
        proxyUsername == getVariable("agent.proxyusername")
        proxyPassword == getVariable("agent.proxypassword")
    IN  IF proxyUrl # Undefined THEN
            LET proxy == urlParse(proxyUrl.v)
                auth == IF proxyUsername # Undefined
                          THEN proxyUsername.v
                               \o (IF proxyPassword # Undefined
                                     THEN <<":">> \o proxyPassword.v ELSE <<>>)
                          ELSE proxy.auth
            IN  Str(Text(urlFormat([proxy EXCEPT !.auth = auth])))
        ELSE Undefined

-----------------------------------------------------------------------------
(* The child-process environment: prepareNuGetExeEnvironment *)

\* let env = {} (line 130); an environment maps key strings to value strings
NewEnv == [k \in {} |-> ""]

\* env[k] = v
Put(env, k, v) == [x \in DOMAIN env \cup {k} |-> IF x = k THEN v ELSE env[x]]

buildCredProviderPathEnvFirst(credProviderPath, envVarCredProviderPath) ==
    IF Truthy(credProviderPath) /\ Truthy(envVarCredProviderPath)
      THEN Str(envVarCredProviderPath.v \o ";" \o credProviderPath.v)
      ELSE OrElse(credProviderPath, envVarCredProviderPath)

buildCredProviderPath(credProviderPath, envVarCredProviderPath) ==
    IF Truthy(credProviderPath) /\ Truthy(envVarCredProviderPath)
      THEN Str(credProviderPath.v \o ";" \o envVarCredProviderPath.v)
      ELSE OrElse(credProviderPath, envVarCredProviderPath)

\* one pass of the loop of lines 135-163 over the entry <<key, value>>;
\* acc holds env and the two envVarCredProviderPath variables
scanEntryCaseSensitive(acc, entry, settings) ==
    LET e == entry[1]
        upper == Text(e)
    IN  IF upper = "NUGET_EXTENSIONS_PATH" /\ settings.extensionsDisabled THEN acc
        ELSE IF upper = "NUGET_PLUGIN_PATHS" THEN [acc EXCEPT !.v2 = Str(entry[2])]
        ELSE IF upper = "NUGET_CREDENTIALPROVIDERS_PATH"
          THEN [acc EXCEPT !.v1 = Str(entry[2])]
        ELSE [acc EXCEPT !.env = Put(acc.env, Text(e), entry[2])]

scanEntry(acc, entry, settings) ==
    LET e == entry[1]
        upper == Text(toUpperCase(e))
    IN  IF upper = "NUGET_EXTENSIONS_PATH" /\ settings.extensionsDisabled THEN acc
        ELSE IF upper = "NUGET_PLUGIN_PATHS" THEN [acc EXCEPT !.v2 = Str(entry[2])]
        ELSE IF upper = "NUGET_CREDENTIALPROVIDERS_PATH"
          THEN [acc EXCEPT !.v1 = Str(entry[2])]
        ELSE [acc EXCEPT !.env = Put(acc.env, Text(e), entry[2])]

RECURSIVE scanInput(_, _, _)
scanInput(acc, input, settings) ==
    IF input = <<>> THEN acc
    ELSE scanInput(scanEntry(acc, Head(input), settings), Tail(input), settings)

\* lines 172-189: the provider-path variable
withProviderPathUnlessDisabled(env, settings, v1, v2) ==
    IF getVariable("NuGet.ForceEnableCredentialProvider") = Str("false") THEN env
    ELSE IF NotNullish(settings.credProviderFolder) \/ NotNullish(v1) THEN
        LET credProviderPath == buildCredProviderPath(settings.credProviderFolder, v1)
        IN  IF Truthy(credProviderPath)
              THEN Put(env, "NUGET_CREDENTIALPROVIDERS_PATH", credProviderPath.v)
              ELSE env
    ELSE
        LET credProviderPath == buildCredProviderPath(settings.V2CredProviderPath, v2)
        IN  IF Truthy(credProviderPath)
              THEN Put(env, "NUGET_PLUGIN_PATHS", credProviderPath.v)
              ELSE env

withProviderPath(env, settings, v1, v2) ==
    IF NotNullish(settings.credProviderFolder) \/ NotNullish(v1) THEN
        LET credProviderPath == buildCredProviderPath(settings.credProviderFolder, v1)
        IN  IF Truthy(credProviderPath)
              THEN Put(env, "NUGET_CREDENTIALPROVIDERS_PATH", credProviderPath.v)
              ELSE env
    ELSE
        LET credProviderPath == buildCredProviderPath(settings.V2CredProviderPath, v2)
        IN  IF Truthy(credProviderPath)
              THEN Put(env, "NUGET_PLUGIN_PATHS", credProviderPath.v)
              ELSE env

\* lines 192-196
withProxyNoPassword(env) ==
    LET proxyUrl == getVariable("agent.proxyurl")
        proxyUsername == getVariable("agent.proxyusername")
    IN  IF proxyUrl # Undefined /\ proxyUrl.v # <<>> THEN
            LET proxy == urlParse(proxyUrl.v)
                auth == IF proxyUsername # Undefined THEN proxyUsername.v ELSE proxy.auth
            IN  Put(env, "HTTP_PROXY", Text(urlFormat([proxy EXCEPT !.auth = auth])))
        ELSE env

withProxy(env) ==
    LET httpProxy == getNuGetProxyFromEnvironment
    IN  IF Truthy(httpProxy) THEN Put(env, "HTTP_PROXY", httpProxy.v) ELSE env

prepareNuGetExeEnvironment(input, settings, authInfo) ==
    LET scanned == scanInput([env |-> NewEnv, v1 |-> Null, v2 |-> Null], input, settings)
        envAuth ==
            IF authInfo.t = "object" /\ authInfo.internalAuthInfo.t = "object"
              THEN Put(Put(scanned.env, "VSS_NUGET_ACCESSTOKEN",
                           authInfo.internalAuthInfo.accessToken),
                       "VSS_NUGET_URI_PREFIXES",
                       JoinWith(authInfo.internalAuthInfo.uriPrefixes, ";"))
              ELSE scanned.env
        envOverride == Put(envAuth, "NUGET_CREDENTIAL_PROVIDER_OVERRIDE_DEFAULT", "true")
    IN  withProxy(withProviderPath(envOverride, settings, scanned.v1, scanned.v2))

-----------------------------------------------------------------------------
(* Bounds and the inputs drawn from them *)

MaxEnvLen == 2      \* entries of an inherited environment
MaxCalls == 2       \* execSync calls on one runner
MaxMajor == 4       \* largest major version component
MaxMinor == 5       \* largest minor version component

KeyPath ==
    <<"P","a","t","h">>

KeyExtensionsPath ==
    <<"N","U","G","E","T","_","E","X","T","E","N","S","I","O","N","S","_",
      "P","A","T","H">>

KeyPluginPaths ==
    <<"N","U","G","E","T","_","P","L","U","G","I","N","_","P","A","T","H",
      "S">>

KeyPluginPathsLower ==
    <<"n","u","g","e","t","_","p","l","u","g","i","n","_","p","a","t","h",
      "s">>

KeyCredentialProvidersPath ==
    <<"N","U","G","E","T","_","C","R","E","D","E","N","T","I","A","L","P",
      "R","O","V","I","D","E","R","S","_","P","A","T","H">>

KeyCredentialProvidersPathMixed ==
    <<"N","u","G","e","t","_","C","r","e","d","e","n","t","i","a","l","P",
      "r","o","v","i","d","e","r","s","_","P","a","t","h">>

KeyHttpProxy ==
    <<"H","T","T","P","_","P","R","O","X","Y">>

UrlPlain ==
    <<"h","t","t","p",":","/","/","p","r","o","x","y",":","8","0","8","0">>

UrlSlash ==
    <<"h","t","t","p",":","/","/","p","r","o","x","y",":","8","0","8","0",
      "/">>

UrlWithAuth ==
    <<"h","t","t","p",":","/","/","x",":","y","@","p","r","o","x","y",":",
      "8","0","8","0">>

WideKeys ==
    {KeyPath, KeyExtensionsPath, KeyPluginPaths, KeyPluginPathsLower,
     KeyCredentialProvidersPath, KeyCredentialProvidersPathMixed}

EnvValues == {"", "B"}

\* the environments of at most MaxEnvLen entries over the given keys, each
\* key at most once, in every insertion order
EnvsOver(keys, values) ==
    {input \in UNION {[1..n -> keys \X values] : n \in 0..MaxEnvLen} :
        \A i, j \in 1..Len(input) : i # j => input[i][1] # input[j][1]}

SettingsSet ==
    [credProviderFolder : {Null, Str(""), Str("A")},
     V2CredProviderPath : {Null, Str("P")},
     extensionsDisabled : BOOLEAN]

InternalAuthInfo ==
    [t |-> "object", accessToken |-> "token", uriPrefixes |-> <<"https://a/", "https://b/">>]

AuthInfos ==
    {Null, [t |-> "object", internalAuthInfo |-> Null],
     [t |-> "object", internalAuthInfo |-> InternalAuthInfo]}

ProxyVariableNames == {"agent.proxyurl", "agent.proxyusername", "agent.proxypassword"}

ProxyValues(name) ==
    IF name = "agent.proxyurl" THEN {<<>>, UrlPlain, UrlSlash, UrlWithAuth}
    ELSE IF name = "agent.proxyusername" THEN {<<"u">>}
    ELSE {<<"p">>}

\* every setting of the three proxy variables
ProxySettings ==
    UNION {{f \in [names -> UNION {ProxyValues(n) : n \in names}] :
               \A n \in names : f[n] \in ProxyValues(n)} :
           names \in SUBSET ProxyVariableNames}

\* what the agent may set between two calls
SettableNames == ProxyVariableNames \cup {"NuGet.ForceEnableCredentialProvider"}

SettableValues(name) ==
    IF name \in ProxyVariableNames THEN ProxyValues(name) ELSE {"false"}

OverrideValues == {"true", "false", "True"}

OverrideNames == {"NuGet.ForceEnableCredentialProvider", "NuGet.ForceEnableCredentialConfig"}

OverrideSettings == UNION {[names -> OverrideValues] : names \in SUBSET OverrideNames}

NoRunner == [t |-> "null"]

NoCall == [fn |-> "none"]

\* the variables of run() before it is called
NoRun ==
    /\ version = Null
    /\ quirks = Null
    /\ useV1CredProvider = Null
    /\ useV2CredProvider = Null
    /\ decisions = [t |-> "none"]
    /\ taskResult = "unset"
    /\ promise = "none"
    /\ trace = <<>>

-----------------------------------------------------------------------------
(* NuGetToolRunner2.execSync, and the agent changing a task variable *)

proxySnapshot ==
    [n \in DOMAIN taskVariables \cap ProxyVariableNames |-> taskVariables[n]]

ExecSync ==
    /\ pc = "api"
    /\ runner.t = "object"
    /\ Len(execs) < MaxCalls
    /\ execs' = Append(execs,
                  [proxy |-> proxySnapshot,
                   env |-> prepareNuGetExeEnvironment(processEnv, runner.settings,
                                                      runner.authInfo)])
    /\ UNCHANGED <<peFile, taskVariables, onPremisesTfs, processEnv, pc, version,
                   quirks, useV1CredProvider, useV2CredProvider, decisions,
                   taskResult, promise, trace, runner, lastCall>>

SetVariable ==
    /\ pc = "api"
    /\ \E name \in SettableNames :
         \/ /\ name \in DOMAIN taskVariables
            /\ taskVariables' = [n \in DOMAIN taskVariables \ {name} |-> taskVariables[n]]
         \/ \E value \in SettableValues(name) :
              /\ getVariable(name) # Str(value)
              /\ taskVariables' = [n \in DOMAIN taskVariables \cup {name} |->
                                      IF n = name THEN value ELSE taskVariables[n]]
    /\ UNCHANGED <<peFile, onPremisesTfs, processEnv, pc, version, quirks,
                   useV1CredProvider, useV2CredProvider, decisions, taskResult,
                   promise, trace, runner, execs, lastCall>>

UnreadPeFile == [kind |-> "error", code |-> "notRead"]

InitEnv ==
    /\ pc = "api"
    /\ processEnv \in EnvsOver(WideKeys, EnvValues)
    /\ runner \in [t : {"object"}, settings : SettingsSet, authInfo : AuthInfos]
    /\ taskVariables \in {f \in ProxySettings : DOMAIN f \subseteq {"agent.proxyurl"}
                                                /\ \A n \in DOMAIN f : f[n] = UrlPlain}
    /\ onPremisesTfs = FALSE
    /\ peFile = UnreadPeFile
    /\ execs = <<>>
    /\ lastCall = NoCall
    /\ NoRun

NextEnv == ExecSync

SpecEnv == InitEnv /\ [][NextEnv]_vars

InitProxy ==
    /\ pc = "api"
    /\ processEnv \in EnvsOver({KeyHttpProxy}, {"B"})
    /\ runner \in [t : {"object"},
                   settings : {s \in SettingsSet : s.extensionsDisabled
                                                   /\ s.credProviderFolder = Str("A")
                                                   /\ s.V2CredProviderPath = Null},
                   authInfo : {Null}]
    /\ taskVariables \in ProxySettings
    /\ onPremisesTfs = FALSE
    /\ peFile = UnreadPeFile
    /\ execs = <<>>
    /\ lastCall = NoCall
    /\ NoRun

NextProxy == ExecSync \/ SetVariable

SpecProxy == InitProxy /\ [][NextProxy]_vars

-----------------------------------------------------------------------------
(* The binary's version metadata *)

Versions == [a : 0..MaxMajor, b : 0..MaxMinor, c : {0}, d : {0}]

RecoverableCodes == {"invalidSignature", "noResourceSection", "noVersionResource"}

\* a failure of another kind, such as a missing file
ErrorCodes == RecoverableCodes \cup {"ENOENT"}

\* what getFileVersionInfoAsync yields: the version resource (the file version
\* may differ from the product version), or an error with a code
PeFiles ==
    {[kind |-> "ok", fileVersion |-> fv, productVersion |-> pv] :
        <<fv, pv>> \in {vv \in Versions \X Versions : vv[1].a = vv[2].a}}
    \cup [kind : {"error"}, code : ErrorCodes]

FloorMajor == 3
FloorMinor == 5

\* line 33
belowFloorMinorOnly(productVersion) ==
    productVersion.a < FloorMajor \/ productVersion.b < FloorMinor

belowFloor(productVersion) ==
    \/ productVersion.a < FloorMajor
    \/ productVersion.a <= FloorMajor /\ productVersion.b < FloorMinor

Quirks(names) == [t |-> "object", names |-> names]

\* getNuGetQuirksAsync once its read of the metadata has come back with
\* `file`; q is what NuGetQuirks.fromVersion returns.  The events are what
\* the function did.
getNuGetQuirksAsyncNoRead(file, q) ==
    IF file.kind = "ok"
      THEN [kind |-> "return", quirks |-> Quirks(q),
            events |-> <<[e |-> "quirks", of |-> file.fileVersion]>>]
    ELSE IF file.code \in RecoverableCodes
      THEN [kind |-> "return", quirks |-> Quirks(defaultQuirks),
            events |-> <<[e |-> "defaultQuirks"]>>]
    ELSE [kind |-> "throw", err |-> file.code, events |-> <<>>]

getNuGetQuirksAsync(file, q) ==
    IF file.kind = "ok"
      THEN [kind |-> "return", quirks |-> Quirks(q),
            events |-> <<[e |-> "read"], [e |-> "quirks", of |-> file.fileVersion]>>]
    ELSE IF file.code \in RecoverableCodes
      THEN [kind |-> "return", quirks |-> Quirks(defaultQuirks),
            events |-> <<[e |-> "read"], [e |-> "defaultQuirks"]>>]
    ELSE [kind |-> "throw", err |-> file.code, events |-> <<[e |-> "read"]>>]

\* nutil.locateCredentialProvider: the folder of the bundled provider
locateCredentialProvider(q) ==
    IF hasQuirk(q, "V2CredentialProvider") THEN "CredentialProviderV2"
    ELSE "CredentialProvider"

-----------------------------------------------------------------------------
(* run(nuGetPath) of nugetcustom.ts, one action per stretch between awaits *)

\* lines 24-32: up to the await of the first metadata read
RunCall ==
    /\ pc = "idle"
    /\ pc' = "run32"
    /\ promise' = "pending"
    /\ trace' = <<[e |-> "run"]>>
    /\ UNCHANGED <<peFile, taskVariables, onPremisesTfs, processEnv, version, quirks,
                   useV1CredProvider, useV2CredProvider, decisions, taskResult,
                   runner, execs, lastCall>>

\* lines 32-42: the read comes back; the floor check; getNuGetQuirksAsync is
\* called and issues its own read (line 248)
RunFloorCheck ==
    /\ pc = "run32"
    /\ IF peFile.kind = "error" THEN
            \* the await of line 32 throws outside the try block
            /\ promise' = "rejected"
            /\ pc' = "runDone"
            /\ trace' = trace \o <<[e |-> "read"]>>
            /\ UNCHANGED <<version, taskResult>>
       ELSE IF belowFloor(peFile.productVersion) THEN
            /\ version' = peFile
            /\ taskResult' = "Failed"
            /\ promise' = "resolved"
            /\ pc' = "runDone"
            /\ trace' = trace \o <<[e |-> "read"],
                                   [e |-> "floor", of |-> peFile.productVersion],
                                   [e |-> "unsupported"]>>
       ELSE
            /\ version' = peFile
            /\ pc' = "run42"
            /\ trace' = trace \o <<[e |-> "read"],
                                   [e |-> "floor", of |-> peFile.productVersion]>>
            /\ UNCHANGED <<taskResult, promise>>
    /\ UNCHANGED <<peFile, taskVariables, onPremisesTfs, processEnv, quirks,
                   useV1CredProvider, useV2CredProvider, decisions, runner, execs,
                   lastCall>>

\* lines 42-50: getNuGetQuirksAsync resumes and returns; the two selector
\* calls; up to the await of assumeNuGetUriPrefixes
RunDecide ==
    /\ pc = "run42"
    /\ \E q \in fromVersion(peFile.fileVersion) :
         LET r == getNuGetQuirksAsync(peFile, q) IN
         IF r.kind = "throw" THEN
              \* caught at line 75
              /\ taskResult' = "Failed"
              /\ promise' = "resolved"
              /\ pc' = "runDone"
              /\ trace' = trace \o r.events
              /\ UNCHANGED <<quirks, useV1CredProvider, useV2CredProvider, decisions>>
         ELSE
              /\ quirks' = r.quirks
              /\ decisions' = [t |-> "made",
                               v1 |-> isCredentialProviderV1Enabled(r.quirks.names),
                               v2 |-> isCredentialProviderV2Enabled(r.quirks.names)]
              /\ useV1CredProvider' =
                    IF isCredentialProviderV1Enabled(r.quirks.names)
                      THEN Str(locateCredentialProvider(r.quirks.names)) ELSE Null
              /\ useV2CredProvider' =
                    IF isCredentialProviderV2Enabled(r.quirks.names)
                      THEN Str(locateCredentialProvider(r.quirks.names)) ELSE Null
              /\ trace' = trace \o r.events \o <<[e |-> "decideV1"], [e |-> "decideV2"]>>
              /\ pc' = "run50"
              /\ UNCHANGED <<taskResult, promise>>
    /\ UNCHANGED <<peFile, taskVariables, onPremisesTfs, processEnv, version, runner,
                   execs, lastCall>>

ExitCodes == {0, 1}

\* lines 50-83: the URL prefixes come back (or the lookup fails); authInfo and
\* the settings are built; runNuGet creates the runner and runs the tool
RunLaunch ==
    /\ pc = "run50"
    /\ \/ \* assumeNuGetUriPrefixes throws: caught at line 75
          /\ taskResult' = "Failed"
          /\ UNCHANGED <<runner, execs, trace>>
       \/ \E code \in ExitCodes :
            LET authInfo ==
                    [t |-> "object",
                     internalAuthInfo |->
                        [t |-> "object", accessToken |-> "token",
                         uriPrefixes |-> <<"https://a/">>]]
                environmentSettings ==
                    [credProviderFolder |-> useV1CredProvider,
                     V2CredProviderPath |-> useV2CredProvider,
                     extensionsDisabled |-> TRUE]
            IN  /\ runner' = [t |-> "object", settings |-> environmentSettings,
                              authInfo |-> authInfo]
                /\ execs' = Append(execs,
                              [proxy |-> proxySnapshot,
                               env |-> prepareNuGetExeEnvironment(
                                          processEnv, environmentSettings, authInfo)])
                /\ trace' = trace \o <<[e |-> "launch"]>>
                \* a non-zero exit code is thrown by runNuGet and caught at line 75
                /\ taskResult' = IF code # 0 THEN "Failed" ELSE taskResult
    /\ promise' = "resolved"
    /\ pc' = "runDone"
    /\ UNCHANGED <<peFile, taskVariables, onPremisesTfs, processEnv, version, quirks,
                   useV1CredProvider, useV2CredProvider, decisions, lastCall>>

(* A direct call of the exported getNuGetQuirksAsync *)

GetNuGetQuirksAsyncCall ==
    /\ pc = "idle"
    /\ pc' = "quirks248"
    /\ promise' = "pending"
    /\ trace' = <<[e |-> "getNuGetQuirksAsync"]>>
    /\ UNCHANGED <<peFile, taskVariables, onPremisesTfs, processEnv, version, quirks,
                   useV1CredProvider, useV2CredProvider, decisions, taskResult,
                   runner, execs, lastCall>>

GetNuGetQuirksAsyncReturn ==
    /\ pc = "quirks248"
    /\ \E q \in fromVersion(peFile.fileVersion) :
         LET r == getNuGetQuirksAsync(peFile, q) IN
         /\ quirks' = IF r.kind = "return" THEN r.quirks ELSE quirks
         /\ promise' = IF r.kind = "return" THEN "resolved" ELSE "rejected"
         /\ trace' = trace \o r.events
    /\ pc' = "quirksDone"
    /\ UNCHANGED <<peFile, taskVariables, onPremisesTfs, processEnv, version,
                   useV1CredProvider, useV2CredProvider, decisions, taskResult,
                   runner, execs, lastCall>>

Init ==
    /\ pc = "idle"
    /\ peFile \in PeFiles
    /\ taskVariables \in {f \in OverrideSettings :
                             DOMAIN f \subseteq {"NuGet.ForceEnableCredentialProvider"}}
    /\ onPremisesTfs \in BOOLEAN
    /\ processEnv \in EnvsOver({KeyPluginPaths}, {"B"})
    /\ runner = NoRunner
    /\ execs = <<>>
    /\ lastCall = NoCall
    /\ NoRun

Next ==
    \/ RunCall
    \/ RunFloorCheck
    \/ RunDecide
    \/ RunLaunch
    \/ GetNuGetQuirksAsyncCall
    \/ GetNuGetQuirksAsyncReturn

Spec == Init /\ [][Next]_vars

-----------------------------------------------------------------------------
(* Direct calls of the exported selector functions *)

CallIsCredentialProviderV1Enabled ==
    /\ pc = "api"
    /\ \E q \in QuirkSets :
         lastCall' = [fn |-> "isCredentialProviderV1Enabled", quirks |-> q,
                      result |-> isCredentialProviderV1Enabled(q)]
    /\ UNCHANGED <<peFile, taskVariables, onPremisesTfs, processEnv, pc, version,
                   quirks, useV1CredProvider, useV2CredProvider, decisions,
                   taskResult, promise, trace, runner, execs>>

CallIsCredentialProviderV2Enabled ==
    /\ pc = "api"
    /\ \E q \in QuirkSets :
         lastCall' = [fn |-> "isCredentialProviderV2Enabled", quirks |-> q,
                      result |-> isCredentialProviderV2Enabled(q)]
    /\ UNCHANGED <<peFile, taskVariables, onPremisesTfs, processEnv, pc, version,
                   quirks, useV1CredProvider, useV2CredProvider, decisions,
                   taskResult, promise, trace, runner, execs>>

CallIsCredentialConfigEnabled ==
    /\ pc = "api"
    /\ \E q \in QuirkSets :
         lastCall' = [fn |-> "isCredentialConfigEnabled", quirks |-> q,
                      result |-> isCredentialConfigEnabled(q)]
    /\ UNCHANGED <<peFile, taskVariables, onPremisesTfs, processEnv, pc, version,
                   quirks, useV1CredProvider, useV2CredProvider, decisions,
                   taskResult, promise, trace, runner, execs>>

InitSelect ==
    /\ pc = "api"
    /\ taskVariables \in OverrideSettings
    /\ onPremisesTfs \in BOOLEAN
    /\ processEnv = <<>>
    /\ peFile = UnreadPeFile
    /\ runner = NoRunner
    /\ execs = <<>>
    /\ lastCall = NoCall
    /\ NoRun

NextSelect ==
    \/ CallIsCredentialProviderV1Enabled
    \/ CallIsCredentialProviderV2Enabled
    \/ CallIsCredentialConfigEnabled

SpecSelect == InitSelect /\ [][NextSelect]_vars

-----------------------------------------------------------------------------
(* Properties *)

Events(name) == {i \in 1..Len(trace) : trace[i].e = name}

IsRun == pc \in {"run32", "run42", "run50", "runDone"}

CredentialProviderOverride == getVariable("NuGet.ForceEnableCredentialProvider")

CredentialConfigOverride == getVariable("NuGet.ForceEnableCredentialConfig")

\* C1: in the decision pass of run() (lines 44-45) the V1 and the V2 selector
\* never both answer true, and so never both provider paths are in use,
\* whatever the quirk set, the topology and the override.
C1_V1V2NeverBothEnabled ==
    decisions.t = "made" =>
        /\ ~(decisions.v1 /\ decisions.v2)
        /\ ~(useV1CredProvider # Null /\ useV2CredProvider # Null)

\* a pass in which the override forces the provider on and V2 is selected
C1_Witness ==
    /\ decisions.t = "made"
    /\ CredentialProviderOverride = Str("true")
    /\ decisions.v2
    /\ useV2CredProvider # Null
    /\ useV1CredProvider = Null

\* C2 as stated: for each of the three selector functions, its override set
\* to "true" makes the result enabled and set to "false" makes it disabled,
\* whatever the quirks and the topology.
C2_OverrideAlwaysWins ==
    lastCall.fn # "none" =>
        LET flag == IF lastCall.fn = "isCredentialConfigEnabled"
                      THEN CredentialConfigOverride ELSE CredentialProviderOverride
        IN  /\ flag = Str("true") => lastCall.result = TRUE
            /\ flag = Str("false") => lastCall.result = FALSE

\* C2 amended: "false" disables all three functions; "true" enables
\* isCredentialConfigEnabled, and of isCredentialProviderV1Enabled and
\* isCredentialProviderV2Enabled exactly the one the version supports (V1
\* without the V2CredentialProvider quirk, V2 with it), beating every other quirk
\* and the topology.
C2_OverrideWinsAfterVersionGate ==
    lastCall.fn # "none" =>
        LET flag == IF lastCall.fn = "isCredentialConfigEnabled"
                      THEN CredentialConfigOverride ELSE CredentialProviderOverride
            hasV2 == "V2CredentialProvider" \in lastCall.quirks
        IN  /\ flag = Str("false") => lastCall.result = FALSE
            /\ flag = Str("true") =>
                  lastCall.result = (CASE lastCall.fn = "isCredentialConfigEnabled" -> TRUE
                                       [] lastCall.fn = "isCredentialProviderV1Enabled" -> ~hasV2
                                       [] lastCall.fn = "isCredentialProviderV2Enabled" -> hasV2)

\* the override forces V1 on against a disabling quirk, on premises
C2_Witness ==
    /\ lastCall.fn = "isCredentialProviderV1Enabled"
    /\ CredentialProviderOverride = Str("true")
    /\ onPremisesTfs
    /\ {"NoCredentialProvider", "NoTfsOnPremAuthCredentialProvider"} \subseteq lastCall.quirks
    /\ lastCall.result = TRUE

\* what the claims call "below the 3.5 floor"
BelowThreeFive(v) == v.a < 3 \/ (v.a = 3 /\ v.b < 5)

\* C3: a run() whose product version is below 3.5 ends with the task result
\* Failed, having resolved no quirks, made no decision, created no runner and
\* launched nothing; a product version at or above 3.5 is never rejected as
\* unsupported.
C3_FloorRejectsBelowThreeFive ==
    (pc \in {"run42", "run50", "runDone"} /\ peFile.kind = "ok") =>
        IF BelowThreeFive(peFile.productVersion)
          THEN /\ pc = "runDone"
               /\ taskResult = "Failed"
               /\ promise = "resolved"
               /\ quirks = Null
               /\ decisions.t = "none"
               /\ runner = NoRunner
               /\ execs = <<>>
               /\ Events("quirks") \cup Events("defaultQuirks") \cup Events("decideV1")
                    \cup Events("decideV2") \cup Events("launch") = {}
          ELSE Events("unsupported") = {}

\* version 3.4 was rejected
C3_Witness ==
    /\ pc = "runDone"
    /\ peFile.kind = "ok"
    /\ peFile.productVersion.a = 3
    /\ peFile.productVersion.b = 4
    /\ taskResult = "Failed"
    /\ Events("unsupported") # {}

\* C4 as stated: when the metadata is unreadable with one of the three
\* recognised codes, run() goes on with exactly the default quirk set and the
\* unreadable version makes it neither reject nor fail the task.
C4_UnreadableVersionRecovered ==
    (pc \in {"run42", "run50", "runDone"} /\ peFile.kind = "error"
        /\ peFile.code \in RecoverableCodes) =>
        /\ promise # "rejected"
        /\ pc \in {"run50", "runDone"} => quirks = Quirks(defaultQuirks)
        /\ taskResult = "Failed" => pc = "runDone" /\ Len(trace) > 2

\* the provider-path variable names, in every casing the environments use
V1Names == {"NUGET_CREDENTIALPROVIDERS_PATH", "NuGet_CredentialProviders_Path"}
V2Names == {"NUGET_PLUGIN_PATHS", "nuget_plugin_paths"}

\* C5: no environment handed to the child process holds a V1 provider-path
\* variable together with a V2 provider-path variable, in any casing.
C5_NeverBothProviderPaths ==
    \A i \in 1..Len(execs) :
        ~(DOMAIN execs[i].env \cap V1Names # {} /\ DOMAIN execs[i].env \cap V2Names # {})

\* inherited: a lower-case V2 variable and a mixed-case V1 variable; the V1
\* variable was emitted
C5_Witness ==
    /\ Len(execs) > 0
    /\ \E i, j \in 1..Len(processEnv) :
          /\ processEnv[i][1] = KeyPluginPathsLower
          /\ processEnv[j][1] = KeyCredentialProvidersPathMixed
          /\ processEnv[j][2] # ""
    /\ runner.settings.V2CredProviderPath # Null
    /\ DOMAIN execs[1].env \cap V1Names = {"NUGET_CREDENTIALPROVIDERS_PATH"}

\* the value of the last inherited entry whose key is one of `names`
Inherited(names) ==
    LET idx == {i \in 1..Len(processEnv) : Text(processEnv[i][1]) \in names}
    IN  IF idx = {} THEN Null
        ELSE Str(processEnv[CHOOSE i \in idx : \A j \in idx : j <= i][2])

\* "a;b", or the one that is there
Combined(a, b) ==
    IF a # Null /\ b # Null THEN a.v \o ";" \o b.v
    ELSE IF a # Null THEN a.v ELSE b.v

\* C6 as stated: with a V1 folder in the settings or an inherited V1 variable
\* the V1 variable is set to the combination and the V2 variable is not set;
\* otherwise the V2 variable is set to the combination of the V2 values;
\* exactly one of the two is set.
C6_ExactlyOneProviderPath ==
    \A i \in 1..Len(execs) :
        LET env == execs[i].env
            s1 == runner.settings.credProviderFolder
            s2 == runner.settings.V2CredProviderPath
        IN  IF s1 # Null \/ Inherited(V1Names) # Null
              THEN /\ "NUGET_CREDENTIALPROVIDERS_PATH" \in DOMAIN env
                   /\ env["NUGET_CREDENTIALPROVIDERS_PATH"] = Combined(s1, Inherited(V1Names))
                   /\ "NUGET_PLUGIN_PATHS" \notin DOMAIN env
              ELSE /\ "NUGET_PLUGIN_PATHS" \in DOMAIN env
                   /\ env["NUGET_PLUGIN_PATHS"] = Combined(s2, Inherited(V2Names))
                   /\ "NUGET_CREDENTIALPROVIDERS_PATH" \notin DOMAIN env

\* the non-empty ones of a and b, in this order, joined by ";"
NonEmptyJoined(a, b) ==
    LET sides == SelectSeq(<<a, b>>, Truthy)
    IN  JoinWith([k \in 1..Len(sides) |-> sides[k].v], ";")

\* C6 amended: at most one of the two variables is set.  With a V1 folder in
\* the settings or an inherited V1 variable (empty ones included) the V2
\* variable is not set, and the V1 variable is set, to the non-empty ones of
\* settings value and inherited value joined by ";", exactly when one of them
\* is non-empty; otherwise the same holds of the V2 variable and the V2
\* values, and the V1 variable is not set.
C6_AtMostOneProviderPath ==
    \A i \in 1..Len(execs) :
        LET env == execs[i].env
            s1 == runner.settings.credProviderFolder
            s2 == runner.settings.V2CredProviderPath
            v1Branch == s1 # Null \/ Inherited(V1Names) # Null
            name == IF v1Branch THEN "NUGET_CREDENTIALPROVIDERS_PATH"
                    ELSE "NUGET_PLUGIN_PATHS"
            expected == IF v1Branch THEN NonEmptyJoined(s1, Inherited(V1Names))
                        ELSE NonEmptyJoined(s2, Inherited(V2Names))
        IN  /\ DOMAIN env \cap (V1Names \cup V2Names) = IF expected = "" THEN {} ELSE {name}
            /\ expected # "" => env[name] = expected

\* "A" from the settings and an inherited "B" gave "A;B", with V2 values around
C6_Witness ==
    /\ Len(execs) > 0
    /\ runner.settings.credProviderFolder = Str("A")
    /\ runner.settings.V2CredProviderPath = Str("P")
    /\ Inherited(V1Names) = Str("B")
    /\ Inherited(V2Names) = Str("B")
    /\ execs[1].env["NUGET_CREDENTIALPROVIDERS_PATH"] = "A;B"

ProxyUrlParts ==
    {[url |-> <<>>, auth |-> "", hostport |-> "", path |-> ""],
     [url |-> UrlPlain, auth |-> "", hostport |-> "proxy:8080", path |-> ""],
     [url |-> UrlSlash, auth |-> "", hostport |-> "proxy:8080", path |-> "/"],
     [url |-> UrlWithAuth, auth |-> "x:y", hostport |-> "proxy:8080", path |-> ""]}

PartsOf(url) == CHOOSE parts \in ProxyUrlParts : parts.url = url

\* "username" or "username:password" as configured, "" without a user name
ConfiguredAuth(proxy) ==
    IF "agent.proxyusername" \notin DOMAIN proxy THEN ""
    ELSE IF "agent.proxypassword" \notin DOMAIN proxy
      THEN Text(proxy["agent.proxyusername"])
    ELSE Text(proxy["agent.proxyusername"]) \o ":" \o Text(proxy["agent.proxypassword"])

\* the builder put HTTP_PROXY there (an inherited HTTP_PROXY has the value "B")
Injected(i) ==
    /\ "HTTP_PROXY" \in DOMAIN execs[i].env
    /\ execs[i].env["HTTP_PROXY"] # "B"

\* C8 as stated: HTTP_PROXY is injected exactly when a proxy URL is
\* configured; with a user name its value is the URL with "username" or
\* "username:password" as authentication component, and without a user name
\* the URL unchanged.
C8_ProxyUrlUnchanged ==
    \A i \in 1..Len(execs) :
        LET proxy == execs[i].proxy IN
        /\ Injected(i) <=> "agent.proxyurl" \in DOMAIN proxy
        /\ Injected(i) =>
              execs[i].env["HTTP_PROXY"] =
                  IF ConfiguredAuth(proxy) = "" THEN Text(proxy["agent.proxyurl"])
                  ELSE "http://" \o ConfiguredAuth(proxy) \o "@"
                       \o PartsOf(proxy["agent.proxyurl"]).hostport
                       \o PartsOf(proxy["agent.proxyurl"]).path

\* the URL as url.format writes it: the path "/" when the URL has none
Normalised(parts, auth) ==
    "http://" \o (IF auth = "" THEN "" ELSE auth \o "@") \o parts.hostport
        \o (IF parts.path = "" THEN "/" ELSE parts.path)

\* C8 amended: HTTP_PROXY is injected exactly when a non-empty proxy URL is
\* configured.  Its value is the URL re-serialised, which for a URL without a
\* path ends in "/": with a user name the authentication component is
\* "username" or "username:password" (replacing the URL's own), without a user
\* name the URL's own authentication component stays, whether or not a
\* password is set.  Without injection an inherited HTTP_PROXY passes through.
C8_ProxyUrlNormalised ==
    \A i \in 1..Len(execs) :
        LET proxy == execs[i].proxy
            env == execs[i].env
        IN  /\ Injected(i) <=>
                  ("agent.proxyurl" \in DOMAIN proxy /\ proxy["agent.proxyurl"] # <<>>)
            /\ Injected(i) =>
                  env["HTTP_PROXY"] =
                      Normalised(PartsOf(proxy["agent.proxyurl"]),
                                 IF ConfiguredAuth(proxy) = ""
                                   THEN PartsOf(proxy["agent.proxyurl"]).auth
                                   ELSE ConfiguredAuth(proxy))
            /\ ~Injected(i) =>
                  /\ "HTTP_PROXY" \in DOMAIN env <=> Inherited({"HTTP_PROXY"}) # Null
                  /\ "HTTP_PROXY" \in DOMAIN env => Str(env["HTTP_PROXY"]) = Inherited({"HTTP_PROXY"})

\* "http://proxy:8080" with "u" and "p"
C8_Witness ==
    \E i \in 1..Len(execs) :
        /\ execs[i].proxy = [n \in ProxyVariableNames |->
                                CASE n = "agent.proxyurl" -> UrlPlain
                                  [] n = "agent.proxyusername" -> <<"u">>
                                  [] n = "agent.proxypassword" -> <<"p">>]
        /\ execs[i].env["HTTP_PROXY"] = "http://u:p@proxy:8080/"

\* the shared predicate by the rules of its priority list
EnabledByRules(flag, q) ==
    \/ flag = Str("true")
    \/ /\ flag # Str("false")
       /\ "NoCredentialProvider" \notin q
       /\ "CredentialProviderRace" \notin q
       /\ ~(onPremisesTfs /\ "NoTfsOnPremAuthCredentialProvider" \in q)

\* C9: whenever a selector defers to the shared predicate (V1 without the
\* V2CredentialProvider quirk, V2 with it), the answer is a boolean decided
\* by the first applicable rule: override "true", override "false",
\* NoCredentialProvider or CredentialProviderRace, on premises with
\* NoTfsOnPremAuthCredentialProvider, else enabled.
C9_SharedPredicateRuleOrder ==
    (\/ /\ lastCall.fn = "isCredentialProviderV1Enabled"
        /\ "V2CredentialProvider" \notin lastCall.quirks
     \/ /\ lastCall.fn = "isCredentialProviderV2Enabled"
        /\ "V2CredentialProvider" \in lastCall.quirks) =>
        /\ lastCall.result \in BOOLEAN
        /\ lastCall.result = EnabledByRules(CredentialProviderOverride, lastCall.quirks)

\* hosted, with NoTfsOnPremAuthCredentialProvider and no override: enabled
C9_Witness ==
    /\ lastCall.fn = "isCredentialProviderV2Enabled"
    /\ lastCall.quirks = {"V2CredentialProvider", "NoTfsOnPremAuthCredentialProvider"}
    /\ ~onPremisesTfs
    /\ CredentialProviderOverride = Undefined
    /\ lastCall.result = TRUE

\* C10 as stated: a run() reads the metadata exactly once, and checks the
\* floor against the version the quirks are resolved from.
C10_MetadataReadOnce ==
    (pc = "runDone" /\ peFile.kind = "ok") =>
        /\ Cardinality(Events("read")) = 1
        /\ \A i \in Events("floor") : \A j \in Events("quirks") : trace[i].of = trace[j].of

\* C10 amended: run() reads the metadata once for the floor check and, when
\* the floor check passes, getNuGetQuirksAsync reads it a second time; the
\* floor is checked against the product version, the quirk set is resolved
\* once, from the file version; every read is complete before the first
\* credential-provider decision and before the launch.
C10_ReadTwiceBeforeDecisions ==
    IsRun =>
        /\ Cardinality(Events("read")) =
              (CASE pc = "run32" -> 0
                 [] pc = "run42" -> 1
                 [] pc = "run50" -> 2
                 [] pc = "runDone" ->
                      IF peFile.kind = "ok" /\ ~BelowThreeFive(peFile.productVersion)
                        THEN 2 ELSE 1)
        /\ Cardinality(Events("quirks") \cup Events("defaultQuirks")) <= 1
        /\ \A i \in Events("floor") : trace[i].of = peFile.productVersion
        /\ \A i \in Events("quirks") : trace[i].of = peFile.fileVersion
        /\ \A i \in Events("read") \cup Events("quirks") \cup Events("floor") :
              \A j \in Events("decideV1") \cup Events("decideV2") \cup Events("launch") :
                  i < j

\* a launched run whose file version is not its product version
C10_Witness ==
    /\ pc = "runDone"
    /\ Events("launch") # {}
    /\ peFile.fileVersion # peFile.productVersion
    /\ Cardinality(Events("read")) = 2

=============================================================================
